---- MODULE Spec2Model ----
(***************************************************************************)
(* Model of can_peak_gateway: the MessageHeader wire layout, the encode    *)
(* path BusPeakGateway.send, the decode path BusPeakGateway._recv_internal *)
(* and the buffering SocketReader that feeds it from a UDP socket.         *)
(*                                                                         *)
(* Bytes are integers 0..255 and a byte string is a sequence of them.      *)
(* 32- and 64-bit header words are kept as big-endian byte sequences, as   *)
(* they lie in the ctypes structure, so that bit 31 can be represented.    *)
(* Message.timestamp (time.time()) is not modelled.                        *)
(***************************************************************************)
EXTENDS Integers, Sequences, FiniteSets, TLC

VARIABLES
    sent,               \* datagrams written to _send_socket, not yet forwarded
    tx_msg,             \* the Message passed to the last send call
    recv_queue,         \* datagrams waiting on _recv_socket
    buffer,             \* SocketReader._buffer
    ret,                \* what the last receive / read call did and returned;
                        \* buffered, waiting: the bytes in the buffer and the
                        \* datagrams on the socket when it was called
    send_socket_open,   \* _send_socket not closed
    recv_socket_open,   \* _recv_socket not closed
    is_shutdown,        \* shutdown() has been called
    n_sent,             \* number of send calls so far
    n_delivered,        \* number of datagrams put on _recv_socket so far
    log                 \* history of the socket and of the calls, kept by the
                        \* specifications that observe a whole run

vars == <<sent, tx_msg, recv_queue, buffer, ret, send_socket_open,
          recv_socket_open, is_shutdown, n_sent, n_delivered, log>>

----------------------------------------------------------------------------
(* Bounds of the model *)

\* largest dlc of an FD frame passed to send
MaxFdDlc == 64
\* data patterns 0..MaxPattern of the frames passed to send
MaxPattern == 1
\* datagrams the gateway (or the loopback) puts on the receive socket
MaxDelivered == 2
\* send calls in one run of the bus
MaxSent == 1
\* chunks the socket delivers to the reader in SpecReader
MaxChunks == 3
\* bytes of one chunk in SpecReader
MaxChunkLen == 3
\* largest size asked of SocketReader.read in SpecReader
MaxReadSize == 3
\* datagrams of one run of SpecStream
MaxStream == 3

----------------------------------------------------------------------------
(* Byte strings and bit operations *)

Take(s, n) == SubSeq(s, 1, IF n < Len(s) THEN n ELSE Len(s))
Drop(s, n) == SubSeq(s, n + 1, Len(s))
Zeros(n) == [i \in 1..n |-> 0]
\* the element of a one-element set: Only({F(x) : x \in {e}}) is F(e), with e
\* evaluated once
Only(S) == CHOOSE x \in S : TRUE

RECURSIVE BitAnd(_, _)
BitAnd(a, b) ==
    IF a = 0 \/ b = 0 THEN 0
    ELSE (a % 2) * (b % 2) + 2 * BitAnd(a \div 2, b \div 2)

RECURSIVE BitOr(_, _)
BitOr(a, b) ==
    IF a = 0 THEN b
    ELSE IF b = 0 THEN a
    ELSE (IF a % 2 = 1 \/ b % 2 = 1 THEN 1 ELSE 0) + 2 * BitOr(a \div 2, b \div 2)

\* big-endian bytes of an unsigned field (c_uint16 / c_uint32 truncate)
U16BE(n) == <<(n \div 256) % 256, n % 256>>
U32BE(n) == <<(n \div 16777216) % 256, (n \div 65536) % 256, (n \div 256) % 256, n % 256>>
Val16(b) == b[1] * 256 + b[2]
\* value of a 32-bit word whose top bit is clear
Val32(b) == ((b[1] * 256 + b[2]) * 256 + b[3]) * 256 + b[4]
And32(a, b) == [i \in 1..4 |-> BitAnd(a[i], b[i])]
Or32(a, b) == [i \in 1..4 |-> BitOr(a[i], b[i])]
NonZero(w) == \E i \in 1..Len(w) : w[i] # 0

----------------------------------------------------------------------------
(* Constants of the protocol *)

CAN_FRAME == 128
CAN_FRAME_CRC == 129
CAN_FD_FRAME == 144
CAN_FD_FRAME_CRC == 145

FLAG_REMOTE_REQUEST == 1
FLAG_EXTENDED_IDENTIFIER == 2
FLAG_EXTENDED_DATA_LENGTH == 16
FLAG_BITRATE_SWITCH == 48
\* faulty variant: the error-state flag one bit too high
FLAG_ERROR_STATE_Bit7 == 2^7
FLAG_ERROR_STATE == 64

MASK_CAN_ID == U32BE(2^28 - 1)
\* faulty variant: the remote-request mask one bit too low
MASK_CAN_ID_REMOTE_REQUEST_Bit29 == U32BE(2^29)
MASK_CAN_ID_REMOTE_REQUEST == U32BE(2^30)
\* 1 << 31
MASK_CAN_ID_EXTENDED_FRAME == <<128, 0, 0, 0>>

FETCH_SIZE_STANDARD_FRAME == 8
FETCH_SIZE_OPTIONAL_CRC == 4

\* socket.recv(1024)
RECV_CHUNK == 1024

----------------------------------------------------------------------------
(* MessageHeader *)

\* sizeof(MessageHeader): 2+2+8+4+4+1+1+2+4 bytes, _pack_ = 1
SizeofMessageHeader == 2 + 2 + 8 + 4 + 4 + 1 + 1 + 2 + 4

\* bytearray(header): the fields in declaration order, big-endian
HeaderBytes(h) ==
    U16BE(h.packet_size) \o U16BE(h.frame_kind) \o h.unused_tag
        \o h.timestamp_low \o h.timestamp_high
        \o <<h.channel % 256, h.frame_size % 256>>
        \o U16BE(h.frame_flags) \o h.frame_id_raw

\* MessageHeader.from_buffer_copy on at least sizeof(MessageHeader) bytes
FromBufferCopy(b) ==
    [packet_size    |-> Val16(SubSeq(b, 1, 2)),
     frame_kind     |-> Val16(SubSeq(b, 3, 4)),
     unused_tag     |-> SubSeq(b, 5, 12),
     timestamp_low  |-> SubSeq(b, 13, 16),
     timestamp_high |-> SubSeq(b, 17, 20),
     channel        |-> b[21],
     frame_size     |-> b[22],
     frame_flags    |-> Val16(SubSeq(b, 23, 24)),
     frame_id_raw   |-> SubSeq(b, 25, 28)]

flag_remote_request_frame(h) == BitAnd(h.frame_flags, FLAG_REMOTE_REQUEST) # 0
flag_extended_data_length(h) == BitAnd(h.frame_flags, FLAG_BITRATE_SWITCH) # 0
flag_activated_bitrate_switch(h) == BitAnd(h.frame_flags, FLAG_BITRATE_SWITCH) # 0
flag_error_state_indicator(h) == BitAnd(h.frame_flags, FLAG_ERROR_STATE) # 0
frame_extended_id(h) == NonZero(And32(h.frame_id_raw, MASK_CAN_ID_EXTENDED_FRAME))
frame_id(h) == Val32(And32(h.frame_id_raw, MASK_CAN_ID))

----------------------------------------------------------------------------
(* can.Message: the fields the gateway reads and writes *)

\* Message(): python-can's defaults
NewMessage ==
    [arbitration_id  |-> 0,
     dlc             |-> 0,
     data            |-> <<>>,
     is_extended_id  |-> TRUE,
     is_remote_frame |-> FALSE,
     is_error_frame  |-> FALSE,
     is_fd           |-> FALSE,
     bitrate_switch  |-> FALSE]

----------------------------------------------------------------------------
(* BusPeakGateway.send *)

\* the header send builds: the constructor call, then the kind and the flags
SendHeader(msg) ==
    LET h0 == [packet_size    |-> SizeofMessageHeader,
               frame_kind     |-> 0,
               unused_tag     |-> Zeros(8),
               timestamp_low  |-> Zeros(4),
               timestamp_high |-> Zeros(4),
               channel        |-> 0,
               frame_size     |-> msg.dlc % 256,
               frame_flags    |-> 0,
               frame_id_raw   |-> U32BE(msg.arbitration_id)]
        h1 == IF msg.is_fd
              THEN [h0 EXCEPT !.packet_size = (@ + msg.dlc) % 65536,
                              !.frame_kind = CAN_FD_FRAME]
              ELSE LET c == [h0 EXCEPT !.packet_size = (@ + FETCH_SIZE_STANDARD_FRAME) % 65536,
                                       !.frame_kind = CAN_FRAME]
                   IN  IF msg.is_remote_frame
                       THEN [c EXCEPT !.frame_flags = BitOr(@, FLAG_REMOTE_REQUEST),
                                      !.frame_id_raw = Or32(@, MASK_CAN_ID_REMOTE_REQUEST)]
                       ELSE c
        h2 == IF msg.is_extended_id
              THEN [h1 EXCEPT !.frame_flags = BitOr(@, FLAG_EXTENDED_IDENTIFIER)]
              ELSE h1
        h3 == IF msg.is_error_frame
              THEN [h2 EXCEPT !.frame_flags = BitOr(@, FLAG_ERROR_STATE)]
              ELSE h2
    IN  IF msg.bitrate_switch
        THEN [h3 EXCEPT !.frame_flags = BitOr(@, FLAG_BITRATE_SWITCH)]
        ELSE h3

\* data = bytearray([0] * 8); data[:len(msg.data)] = msg.data
\* (the slice assignment replaces the first len(msg.data) zeros, and grows the
\* array when msg.data is longer than it)
\* faulty variant: the data put in front of the 8 zeros, none of them replaced
PadStandardFrame_Prepended(d) == d \o Zeros(FETCH_SIZE_STANDARD_FRAME)

PadStandardFrame(d) ==
    d \o Drop(Zeros(FETCH_SIZE_STANDARD_FRAME), Len(d))

\* faulty variant: a classic payload appended as it is, not padded to 8 bytes
SendPayload_Unpadded(msg) == msg.data

\* the bytes appended after the header
SendPayload(msg) ==
    IF msg.is_fd THEN msg.data ELSE PadStandardFrame(msg.data)

\* the frame handed to _send_socket.send
SendFrame(msg) == HeaderBytes(SendHeader(msg)) \o SendPayload(msg)

----------------------------------------------------------------------------
(* SocketReader.read *)

\* The timeout argument: None blocks, T > 0 waits, 0 makes the socket
\* non-blocking.  With nothing on the socket, recv blocks for ever, raises
\* TimeoutError, or raises BlockingIOError.
Timeouts == {"None", "T", "0"}

RecvFails(timeout) ==
    CASE timeout = "None" -> "blocked"
      [] timeout = "T"    -> "TimeoutError"
      [] OTHER            -> "BlockingIOError"

\* faulty variant: the test len(_buffer) < size left out, so that every call
\* receives from the socket
SocketReaderRead_AlwaysRecv(buf, queue, size, timeout) ==
    IF queue = <<>>
    THEN [size |-> size, outcome |-> RecvFails(timeout), data |-> <<>>,
          buffer |-> buf, queue |-> queue, recvs |-> 1]
    ELSE LET ext == buf \o Take(Head(queue), RECV_CHUNK)
         IN  [size |-> size, outcome |-> "ok", data |-> Take(ext, size),
              buffer |-> Drop(ext, size), queue |-> Tail(queue), recvs |-> 1]

\* faulty variant: the received chunk assigned to the buffer, not appended to it
SocketReaderRead_Overwrite(buf, queue, size, timeout) ==
    IF Len(buf) < size
    THEN IF queue = <<>>
         THEN [size |-> size, outcome |-> RecvFails(timeout), data |-> <<>>,
               buffer |-> buf, queue |-> queue, recvs |-> 1]
         ELSE LET ext == Take(Head(queue), RECV_CHUNK)
              IN  [size |-> size, outcome |-> "ok", data |-> Take(ext, size),
                   buffer |-> Drop(ext, size), queue |-> Tail(queue), recvs |-> 1]
    ELSE [size |-> size, outcome |-> "ok", data |-> Take(buf, size),
          buffer |-> Drop(buf, size), queue |-> queue, recvs |-> 0]

\* one call read(size, timeout) on the buffer buf, queue being the datagrams
\* waiting on the socket: what it returns, and the buffer and socket it leaves
SocketReaderRead(buf, queue, size, timeout) ==
    IF Len(buf) < size
    THEN IF queue = <<>>
         THEN [size |-> size, outcome |-> RecvFails(timeout), data |-> <<>>,
               buffer |-> buf, queue |-> queue, recvs |-> 1]
         ELSE LET ext == buf \o Take(Head(queue), RECV_CHUNK)
              IN  [size |-> size, outcome |-> "ok", data |-> Take(ext, size),
                   buffer |-> Drop(ext, size), queue |-> Tail(queue), recvs |-> 1]
    ELSE [size |-> size, outcome |-> "ok", data |-> Take(buf, size),
          buffer |-> Drop(buf, size), queue |-> queue, recvs |-> 0]

----------------------------------------------------------------------------
(* BusPeakGateway._recv_internal *)

\* faulty variant: a trailer fetched after every frame, whatever its kind
FetchCrc_EveryKind(header) == header.frame_kind >= CAN_FRAME

\* fetch_crc: membership in the one-element set {CAN_FRAME_CRC | CAN_FD_FRAME_CRC}
FetchCrc(header) ==
    header.frame_kind \in {BitOr(CAN_FRAME_CRC, CAN_FD_FRAME_CRC)}

\* faulty variant: no catch-all branch, every kind that is not FD decoded as classic
KindCase_NoDefault(header) ==
    IF header.frame_kind \in {CAN_FD_FRAME, CAN_FD_FRAME_CRC} THEN "fd" ELSE "classic"

\* the branch of the match statement the frame kind selects
KindCase(header) ==
    IF header.frame_kind \in {CAN_FRAME, CAN_FRAME_CRC} THEN "classic"
    ELSE IF header.frame_kind \in {CAN_FD_FRAME, CAN_FD_FRAME_CRC} THEN "fd"
    ELSE "unknown"

\* faulty variant: fetch_size left at its default in the FD branch
FetchSize_Standard(header) == FETCH_SIZE_STANDARD_FRAME

\* fetch_size after the match statement
FetchSize(header) ==
    IF KindCase(header) = "fd" THEN header.frame_size ELSE FETCH_SIZE_STANDARD_FRAME

\* the Message after the match statement
MatchedMessage(header) ==
    IF KindCase(header) = "classic"
    THEN [NewMessage EXCEPT !.is_remote_frame = flag_remote_request_frame(header)]
    ELSE [NewMessage EXCEPT !.is_fd = TRUE,
                            !.is_error_frame = flag_error_state_indicator(header),
                            !.bitrate_switch = flag_activated_bitrate_switch(header)]

\* the Message returned: lines 189-193
BuiltMessage(header, payload_data) ==
    [MatchedMessage(header) EXCEPT
        !.arbitration_id = frame_id(header),
        !.is_extended_id = frame_extended_id(header),
        !.dlc = header.frame_size,
        !.data = Take(payload_data, header.frame_size)]

NoHeader == FromBufferCopy(Zeros(SizeofMessageHeader))

\* what a call ends with: "frame" and "no_frame" are the returns (message,
\* False) and (None, False); any other outcome is the exception that escapes
\* the call, or "blocked" for a call that never returns
RecvResult(outcome, message, parsed, header, reads, warned, buf, queue) ==
    [outcome |-> outcome, message |-> message, parsed |-> parsed,
     header |-> header, reads |-> reads, warned |-> warned,
     buffer |-> buf, queue |-> queue]

\* after the CRC trailer read r3 (rs: the reads before it)
RecvAfterCrc(header, rs, payload_data, r3) ==
    IF r3.outcome # "ok"
    THEN RecvResult(r3.outcome, NewMessage, TRUE, header, Append(rs, r3), FALSE,
                    r3.buffer, r3.queue)
    ELSE RecvResult("frame", BuiltMessage(header, payload_data), TRUE, header,
                    Append(rs, r3), FALSE, r3.buffer, r3.queue)

\* after the payload read r2 (r1: the header read)
RecvAfterPayload(header, r1, r2, timeout) ==
    IF r2.outcome # "ok"
    THEN RecvResult(r2.outcome, NewMessage, TRUE, header, <<r1, r2>>, FALSE,
                    r2.buffer, r2.queue)
    ELSE IF FetchCrc(header)
    THEN Only({ RecvAfterCrc(header, <<r1, r2>>, r2.data, r3) :
                  r3 \in {SocketReaderRead(r2.buffer, r2.queue,
                                           FETCH_SIZE_OPTIONAL_CRC, timeout)} })
    ELSE RecvResult("frame", BuiltMessage(header, r2.data), TRUE, header,
                    <<r1, r2>>, FALSE, r2.buffer, r2.queue)

\* after the header bytes have been read by r1 and parsed
RecvAfterHeader(header, r1, timeout) ==
    IF KindCase(header) = "unknown"
    THEN RecvResult("no_frame", NewMessage, TRUE, header, <<r1>>, TRUE,
                    r1.buffer, r1.queue)
    ELSE Only({ RecvAfterPayload(header, r1, r2, timeout) :
                  r2 \in {SocketReaderRead(r1.buffer, r1.queue,
                                           FetchSize(header), timeout)} })

\* faulty variant: the reader buffer thrown away when the header read times out
RecvAfterHeaderRead_ResetOnTimeout(r1, timeout) ==
    IF r1.outcome = "TimeoutError"
    THEN RecvResult("no_frame", NewMessage, FALSE, NoHeader, <<r1>>, FALSE,
                    <<>>, r1.queue)
    ELSE IF r1.outcome # "ok" \/ Len(r1.data) < SizeofMessageHeader
    THEN RecvResult(IF r1.outcome # "ok" THEN r1.outcome ELSE "ValueError",
                    NewMessage, FALSE, NoHeader, <<r1>>, FALSE, r1.buffer, r1.queue)
    ELSE Only({ RecvAfterHeader(header, r1, timeout) :
                  header \in {FromBufferCopy(r1.data)} })

\* after the header read r1: lines 162-166
RecvAfterHeaderRead(r1, timeout) ==
    IF r1.outcome = "TimeoutError"
    THEN RecvResult("no_frame", NewMessage, FALSE, NoHeader, <<r1>>, FALSE,
                    r1.buffer, r1.queue)
    ELSE IF r1.outcome # "ok"
    THEN RecvResult(r1.outcome, NewMessage, FALSE, NoHeader, <<r1>>, FALSE,
                    r1.buffer, r1.queue)
    ELSE IF Len(r1.data) < SizeofMessageHeader
    THEN \* from_buffer_copy: ValueError, buffer size too small
         RecvResult("ValueError", NewMessage, FALSE, NoHeader, <<r1>>, FALSE,
                    r1.buffer, r1.queue)
    ELSE Only({ RecvAfterHeader(header, r1, timeout) :
                  header \in {FromBufferCopy(r1.data)} })

\* one call _recv_internal(timeout)
RecvInternal(buf, queue, timeout) ==
    Only({ RecvAfterHeaderRead(r1, timeout) :
             r1 \in {SocketReaderRead(buf, queue, SizeofMessageHeader, timeout)} })

----------------------------------------------------------------------------
(* Inputs: the frames callers pass to send *)

\* byte i of data pattern p
DataByte(p, i) == (p * (i + 126)) % 256
Pattern(p, n) == [i \in 1..n |-> DataByte(p, i)]

ArbIds == {69, 2^28 - 1, 2^29 - 1}

\* the largest dlc a frame may carry: 8 classic, MaxFdDlc FD
MaxDlc(is_fd) == IF is_fd THEN MaxFdDlc ELSE FETCH_SIZE_STANDARD_FRAME

\* frames with len(data) = dlc, and frames that carry a dlc but no data
CodecMsgs ==
    { [arbitration_id  |-> id,
       dlc             |-> dlc,
       data            |-> data,
       is_extended_id  |-> ext,
       is_remote_frame |-> rtr,
       is_error_frame  |-> err,
       is_fd           |-> fd,
       bitrate_switch  |-> brs] :
         id \in ArbIds, ext \in BOOLEAN, rtr \in BOOLEAN, err \in BOOLEAN,
         brs \in BOOLEAN,
         <<fd, dlc, data>> \in
            { <<f, n, Pattern(q, n)>> :
                 f \in BOOLEAN, n \in 0..MaxFdDlc, q \in 0..MaxPattern }
            \cup { <<f, n, <<>> >> : f \in BOOLEAN, n \in 0..MaxFdDlc } }

ValidMsgs == { m \in CodecMsgs : m.dlc <= MaxDlc(m.is_fd) }

\* example/send.py: Message(arbitration_id=69, data=[0x00, counter, 0x11, counter, 0x22])
ExampleMessage(counter) ==
    [NewMessage EXCEPT !.arbitration_id = 69, !.dlc = 5,
                       !.data = <<0, counter, 17, counter, 34>>]

BusMsgs ==
    { ExampleMessage(1),
      [ExampleMessage(1) EXCEPT !.is_fd = TRUE, !.bitrate_switch = TRUE,
                                !.is_extended_id = FALSE] }

----------------------------------------------------------------------------
(* Inputs: the datagrams that arrive on the receive socket *)

\* a datagram with the given header fields followed by body
GatewayDatagram(kind, frame_size, flags, id_raw, body) ==
    HeaderBytes([packet_size    |-> SizeofMessageHeader + Len(body),
                 frame_kind     |-> kind,
                 unused_tag     |-> Zeros(8),
                 timestamp_low  |-> Zeros(4),
                 timestamp_high |-> Zeros(4),
                 channel        |-> 0,
                 frame_size     |-> frame_size,
                 frame_flags    |-> flags,
                 frame_id_raw   |-> id_raw]) \o body

CrcKinds == {CAN_FRAME_CRC, CAN_FD_FRAME_CRC}
KnownKinds == {CAN_FRAME, CAN_FRAME_CRC, CAN_FD_FRAME, CAN_FD_FRAME_CRC}
CrcBytes == <<222, 173, 190, 239>>

\* payload and trailer of a complete datagram of a known kind
CompleteBody(kind, frame_size) ==
    (IF kind \in {CAN_FD_FRAME, CAN_FD_FRAME_CRC}
     THEN Pattern(1, frame_size)
     ELSE PadStandardFrame(Take(Pattern(1, frame_size), FETCH_SIZE_STANDARD_FRAME)))
    \o (IF kind \in CrcKinds THEN CrcBytes ELSE <<>>)

\* a complete datagram of a known kind
Complete(kind, frame_size, flags, id_raw) ==
    GatewayDatagram(kind, frame_size, flags, id_raw, CompleteBody(kind, frame_size))

\* the frames the gateway forwards
CompleteDatagrams ==
    { Complete(CAN_FRAME, 5, 3, <<223, 255, 255, 255>>),
      Complete(CAN_FRAME, 9, 0, U32BE(69)),
      Complete(CAN_FRAME_CRC, 5, 0, U32BE(69)),
      Complete(CAN_FD_FRAME, 12, 16, U32BE(69)),
      Complete(CAN_FD_FRAME, 0, 96, U32BE(2^28 - 1)),
      Complete(CAN_FD_FRAME_CRC, 5, 96, U32BE(69)) }

\* a kind this bus does not know, with an 8-byte body
UnknownDatagram == GatewayDatagram(0, 5, 0, U32BE(69), Pattern(1, 8))
\* a kind this bus does not know, whose body is 28 bytes that read as the
\* header of a classic frame
UnknownNested ==
    GatewayDatagram(0, 0, 0, U32BE(69),
                    GatewayDatagram(CAN_FRAME, 5, 0, U32BE(69), <<>>))

\* datagrams cut short or of a foreign format
OtherDatagrams ==
    { UnknownDatagram,
      UnknownNested,
      Take(UnknownDatagram, 24),
      Take(GatewayDatagram(CAN_FRAME, 5, 0, U32BE(69), <<>>), 10),
      GatewayDatagram(CAN_FRAME, 5, 0, U32BE(69), <<>>),
      GatewayDatagram(CAN_FD_FRAME_CRC, 5, 0, U32BE(69), Pattern(1, 5)) }

GatewayDatagrams == CompleteDatagrams \cup OtherDatagrams

\* the k-th chunk a bare socket delivers to the reader: len fresh bytes
ReaderChunk(k, len) == [j \in 1..len |-> (16 * k + j) % 256]

----------------------------------------------------------------------------
(* State machine *)

\* nothing delivered, received, returned or decoded yet
NoLog == [delivered |-> <<>>, received |-> <<>>, returned |-> <<>>, frames |-> <<>>]

NoCall ==
    [call |-> "none", outcome |-> "none",
     message |-> NewMessage, parsed |-> FALSE, header |-> NoHeader,
     reads |-> <<>>, warned |-> FALSE, buffered |-> 0, waiting |-> 0]

\* BusPeakGateway.__init__: two open sockets and an empty reader
Init ==
    /\ sent = <<>>
    /\ tx_msg = NewMessage
    /\ recv_queue = <<>>
    /\ buffer = <<>>
    /\ ret = NoCall
    /\ send_socket_open = TRUE
    /\ recv_socket_open = TRUE
    /\ is_shutdown = FALSE
    /\ n_sent = 0
    /\ n_delivered = 0
    /\ log = NoLog

\* bus.send(msg)
Send(msg) ==
    /\ sent' = Append(sent, SendFrame(msg))
    /\ tx_msg' = msg
    /\ n_sent' = n_sent + 1
    /\ UNCHANGED <<recv_queue, buffer, ret, send_socket_open, recv_socket_open,
                   is_shutdown, n_delivered, log>>

\* the network hands a datagram to the receive socket
DeliverCall(d) ==
    /\ recv_queue' = Append(recv_queue, d)
    /\ n_delivered' = n_delivered + 1
    /\ UNCHANGED <<sent, tx_msg, buffer, ret, send_socket_open, recv_socket_open,
                   is_shutdown, n_sent>>

Deliver(d) == DeliverCall(d) /\ UNCHANGED log

\* the datagram written by send comes back on the receive socket
Loopback ==
    /\ sent # <<>>
    /\ recv_queue' = Append(recv_queue, Head(sent))
    /\ sent' = Tail(sent)
    /\ n_delivered' = n_delivered + 1
    /\ UNCHANGED <<tx_msg, buffer, ret, send_socket_open, recv_socket_open,
                   is_shutdown, n_sent, log>>

\* one call _recv_internal(timeout) that returns or raises
RecvCall(timeout) ==
    \E r \in {RecvInternal(buffer, recv_queue, timeout)} :
        /\ r.outcome # "blocked"
        /\ buffer' = r.buffer
        /\ recv_queue' = r.queue
        /\ ret' = [call |-> "recv", outcome |-> r.outcome,
                   message |-> r.message, parsed |-> r.parsed, header |-> r.header,
                   reads |-> r.reads, warned |-> r.warned,
                   buffered |-> Len(buffer), waiting |-> Len(recv_queue)]
        /\ UNCHANGED <<sent, tx_msg, send_socket_open, recv_socket_open,
                       is_shutdown, n_sent, n_delivered>>

Recv(timeout) == RecvCall(timeout) /\ UNCHANGED log

\* one call SocketReader.read(size, timeout) that returns or raises
ReaderReadCall(size, timeout) ==
    \E r \in {SocketReaderRead(buffer, recv_queue, size, timeout)} :
        /\ r.outcome # "blocked"
        /\ buffer' = r.buffer
        /\ recv_queue' = r.queue
        /\ ret' = [call |-> "read", outcome |-> r.outcome,
                   message |-> NewMessage, parsed |-> FALSE, header |-> NoHeader,
                   reads |-> <<r>>, warned |-> FALSE,
                   buffered |-> Len(buffer), waiting |-> Len(recv_queue)]
        /\ UNCHANGED <<sent, tx_msg, send_socket_open, recv_socket_open,
                       is_shutdown, n_sent, n_delivered>>

ReaderRead(size, timeout) == ReaderReadCall(size, timeout) /\ UNCHANGED log

\* bus.shutdown(): BusPeakGateway defines none, so the inherited one runs,
\* which knows nothing of the two sockets
Shutdown ==
    /\ is_shutdown' = TRUE
    /\ UNCHANGED <<sent, tx_msg, recv_queue, buffer, ret, send_socket_open,
                   recv_socket_open, n_sent, n_delivered, log>>

\* the bus with its gateway; as in example/dump.py and example/send.py, the
\* caller makes no call after shutdown
Next ==
    \/ \E m \in BusMsgs : ~is_shutdown /\ n_sent < MaxSent /\ Send(m)
    \/ n_delivered < MaxDelivered /\ Loopback
    \/ \E d \in GatewayDatagrams : n_delivered < MaxDelivered /\ Deliver(d)
    \/ \E t \in Timeouts : ~is_shutdown /\ Recv(t)
    \/ Shutdown

Spec == Init /\ [][Next]_vars

\* the codec: one frame is sent, comes back, and is received
InitCodec ==
    /\ sent = <<>>
    /\ tx_msg \in ValidMsgs
    /\ recv_queue = <<>>
    /\ buffer = <<>>
    /\ ret = NoCall
    /\ send_socket_open = TRUE
    /\ recv_socket_open = TRUE
    /\ is_shutdown = FALSE
    /\ n_sent = 0
    /\ n_delivered = 0
    /\ log = NoLog

NextCodec ==
    \/ n_sent = 0 /\ Send(tx_msg)
    \/ Loopback
    \/ \E t \in Timeouts : Recv(t)

SpecCodec == InitCodec /\ [][NextCodec]_vars

\* the reader alone on a socket
NextReader ==
    \/ \E len \in 0..MaxChunkLen :
          n_delivered < MaxChunks /\ Deliver(ReaderChunk(n_delivered, len))
    \/ \E size \in 0..MaxReadSize, t \in Timeouts : ReaderRead(size, t)

SpecReader == Init /\ [][NextReader]_vars

----------------------------------------------------------------------------
(* What the last call did *)

\* the datagrams the last call took from the socket
Pulled ==
    Cardinality({ i \in DOMAIN ret.reads :
                    ret.reads[i].recvs = 1 /\ ret.reads[i].outcome = "ok" })

\* one of the reads of the last call timed out
TimedOut == \E i \in DOMAIN ret.reads : ret.reads[i].outcome = "TimeoutError"

\* the last call was a receive that took exactly one datagram into an empty reader
ReceivedOneDatagram == ret.call = "recv" /\ ret.buffered = 0 /\ Pulled = 1

\* the bytes of that datagram: what the reads returned, then what stayed buffered
RECURSIVE ReadBytes(_)
ReadBytes(rs) == IF rs = <<>> THEN <<>> ELSE Head(rs).data \o ReadBytes(Tail(rs))
DatagramBytes == ReadBytes(ret.reads) \o buffer

\* the frame_kind field of a byte string of at least 4 bytes
KindField(b) == Val16(SubSeq(b, 3, 4))

----------------------------------------------------------------------------
(* Runs observed as a whole: the same calls, with their history kept in log *)

\* the bytes of a sequence of byte strings, in order
RECURSIVE Flatten(_)
Flatten(ss) == IF ss = <<>> THEN <<>> ELSE Head(ss) \o Flatten(Tail(ss))

\* what socket.recv(1024) returned in a call that found the socket queue before
\* it and left the queue after it
Received(before, after) ==
    Flatten([i \in 1..(Len(before) - Len(after)) |-> Take(before[i], RECV_CHUNK)])

DeliverLogged(d) ==
    /\ DeliverCall(d)
    /\ log' = [log EXCEPT !.delivered = Append(@, d)]

RecvLogged(timeout) ==
    /\ RecvCall(timeout)
    /\ log' = [log EXCEPT
                 !.received = @ \o Received(recv_queue, recv_queue'),
                 !.returned = @ \o ReadBytes(ret'.reads),
                 !.frames = IF ret'.outcome = "frame" THEN Append(@, ret'.message) ELSE @]

ReaderReadLogged(size, timeout) ==
    /\ ReaderReadCall(size, timeout)
    /\ log' = [log EXCEPT
                 !.received = @ \o Received(recv_queue, recv_queue'),
                 !.returned = @ \o ReadBytes(ret'.reads)]

\* complete datagrams without trailer: the header, then 8 payload bytes
\* (CAN_FRAME) or frame_size payload bytes (CAN_FD_FRAME)
CompleteStream ==
    { Complete(CAN_FRAME, 5, 0, U32BE(69)),
      Complete(CAN_FRAME, 8, 1, U32BE(70)),
      Complete(CAN_FD_FRAME, 12, 32, U32BE(69)),
      Complete(CAN_FD_FRAME, 0, 0, U32BE(71)) }

\* datagrams of 24 + 8 bytes (CAN_FRAME) and 24 + frame_size bytes
\* (CAN_FD_FRAME): the header, then a payload cut by the 4 bytes that the
\* header is longer than 24
ShortBy4(kind, frame_size, flags, id_raw) ==
    GatewayDatagram(kind, frame_size, flags, id_raw,
                    Take(CompleteBody(kind, frame_size),
                         Len(CompleteBody(kind, frame_size)) - (SizeofMessageHeader - 24)))

ShortStream ==
    { ShortBy4(CAN_FRAME, 5, 0, U32BE(69)),
      ShortBy4(CAN_FD_FRAME, 12, 32, U32BE(69)) }

\* a gateway that forwards frames without trailer, each in one datagram, to a
\* bus that only receives
NextStream ==
    \/ \E d \in CompleteStream \cup ShortStream :
          n_delivered < MaxStream /\ DeliverLogged(d)
    \/ \E t \in Timeouts : RecvLogged(t)

SpecStream == Init /\ [][NextStream]_vars

\* the reader alone on a socket, observed
NextReaderLog ==
    \/ \E len \in 0..MaxChunkLen :
          n_delivered < MaxChunks /\ DeliverLogged(ReaderChunk(n_delivered, len))
    \/ \E size \in 0..MaxReadSize, t \in Timeouts : ReaderReadLogged(size, t)

SpecReaderLog == Init /\ [][NextReaderLog]_vars

\* the frame a datagram carries: its header fields and the payload after them
FrameOf(d) == BuiltMessage(FromBufferCopy(d), Drop(d, SizeofMessageHeader))

----------------------------------------------------------------------------
(* Claims *)

\* C1: a classic frame (dlc in 0..8, len(data) = dlc, arbitration_id below 2^29)
\* that is sent and received back into an empty reader comes back as a frame
\* with the same arbitration_id, dlc, data, extended_id and remote_frame.
C1_ClassicRoundTrip ==
    (/\ ReceivedOneDatagram
     /\ ~tx_msg.is_fd
     /\ tx_msg.dlc \in 0..8
     /\ Len(tx_msg.data) = tx_msg.dlc
     /\ tx_msg.arbitration_id \in 0..(2^29 - 1))
    => /\ ret.outcome = "frame"
       /\ ret.message.arbitration_id = tx_msg.arbitration_id
       /\ ret.message.dlc = tx_msg.dlc
       /\ ret.message.data = tx_msg.data
       /\ ret.message.is_extended_id = tx_msg.is_extended_id
       /\ ret.message.is_remote_frame = tx_msg.is_remote_frame

\* C2: an FD frame (dlc in 0..MaxFdDlc, len(data) = dlc) that is sent and
\* received back into an empty reader comes back as a frame with is_fd set and
\* the same dlc, data, bitrate_switch and error_frame.
C2_FdRoundTrip ==
    (/\ ReceivedOneDatagram
     /\ tx_msg.is_fd
     /\ tx_msg.dlc \in 0..MaxFdDlc
     /\ Len(tx_msg.data) = tx_msg.dlc)
    => /\ ret.outcome = "frame"
       /\ ret.message.is_fd
       /\ ret.message.dlc = tx_msg.dlc
       /\ ret.message.data = tx_msg.data
       /\ ret.message.bitrate_switch = tx_msg.bitrate_switch
       /\ ret.message.is_error_frame = tx_msg.is_error_frame

C2_Witness ==
    /\ ReceivedOneDatagram
    /\ tx_msg.is_fd /\ tx_msg.dlc = 64 /\ Len(tx_msg.data) = 64
    /\ tx_msg.bitrate_switch /\ ~tx_msg.is_error_frame
    /\ ret.outcome = "frame"
    /\ Len(ret.message.data) = 64
    /\ ret.message.bitrate_switch /\ ~ret.message.is_error_frame

\* C3: a call read(n, timeout) that returns, returns exactly n bytes.
C3_ReadExactLength ==
    ret.call = "read" =>
        \A i \in DOMAIN ret.reads :
            ret.reads[i].outcome = "ok" => Len(ret.reads[i].data) = ret.reads[i].size

\* C4: a receive that returns a frame has read the 4 trailer bytes if and only
\* if the kind is CAN_FRAME_CRC or CAN_FD_FRAME_CRC, and after a complete
\* datagram of a known kind was decoded into an empty reader nothing of it
\* stays buffered.
C4_CrcTrailerConsumed ==
    (ret.call = "recv" /\ ret.outcome = "frame") =>
        /\ (Len(ret.reads) = 3) <=> (ret.header.frame_kind \in CrcKinds)
        /\ (/\ ReceivedOneDatagram
            /\ Len(DatagramBytes) =
                 SizeofMessageHeader + FetchSize(ret.header)
                 + (IF ret.header.frame_kind \in CrcKinds THEN 4 ELSE 0))
           => buffer = <<>>

\* C5: a receive one of whose reads timed out returns "no frame".
C5_TimeoutIsNoFrame ==
    (ret.call = "recv" /\ TimedOut) => ret.outcome = "no_frame"

\* C6: a receive called with no datagram on the socket, whose socket receive
\* times out, returns "no frame" whatever the buffer held.
C6_NoDatagramIsNoFrame ==
    (ret.call = "recv" /\ ret.waiting = 0 /\ TimedOut) => ret.outcome = "no_frame"

\* C7: after a receive has read, into an empty reader, the header of a datagram
\* of unknown kind, no byte of that datagram stays buffered.
C7_UnknownDiscardedWhole ==
    (/\ ret.call = "recv"
     /\ ret.buffered = 0
     /\ ret.parsed
     /\ ret.header.frame_kind \notin KnownKinds)
    => buffer = <<>>

\* C8 as stated: a receive whose header read returns the first bytes, at least
\* 24, of a datagram whose frame_kind field is unknown returns "no frame" after
\* that one read.
C8_UnknownKind24 ==
    (/\ ret.call = "recv"
     /\ ret.reads[1].outcome = "ok"
     /\ Len(ret.reads[1].data) >= 24
     /\ KindField(ret.reads[1].data) \notin KnownKinds)
    => ret.outcome = "no_frame" /\ Len(ret.reads) = 1

\* C8 amended: a receive whose header read returns the first 28 bytes of a
\* datagram whose frame_kind field is unknown returns "no frame" after that
\* one read: no payload read, no trailer read, no exception.
C8_UnknownKindNoFrame ==
    (/\ ret.call = "recv"
     /\ ret.reads[1].outcome = "ok"
     /\ Len(ret.reads[1].data) >= 28
     /\ KindField(ret.reads[1].data) \notin KnownKinds)
    => ret.outcome = "no_frame" /\ Len(ret.reads) = 1

C8_Witness ==
    /\ ReceivedOneDatagram
    /\ Len(ret.reads[1].data) = 28
    /\ KindField(ret.reads[1].data) = 0
    /\ ret.outcome = "no_frame"
    /\ ret.warned
    /\ Len(buffer) = 8

\* C9: once shutdown has been called both sockets are closed.
C9_ShutdownClosesSockets ==
    is_shutdown => (~send_socket_open /\ ~recv_socket_open)

\* C10 as stated: the packet_size field of the datagram send wrote is the
\* datagram's length, which is 24 + 8 for a classic and 24 + dlc for an FD frame.
C10_PacketSize24 ==
    (/\ sent # <<>>
     /\ Len(tx_msg.data) = tx_msg.dlc
     /\ tx_msg.dlc <= MaxDlc(tx_msg.is_fd))
    => /\ Val16(SubSeq(Head(sent), 1, 2)) = Len(Head(sent))
       /\ Len(Head(sent)) = (IF tx_msg.is_fd THEN 24 + tx_msg.dlc ELSE 24 + 8)

\* C10 amended: the packet_size field of the datagram send wrote is the
\* datagram's length, which is 28 + 8 for a classic and 28 + dlc for an FD frame.
C10_PacketSize ==
    (/\ sent # <<>>
     /\ Len(tx_msg.data) = tx_msg.dlc
     /\ tx_msg.dlc <= MaxDlc(tx_msg.is_fd))
    => /\ Val16(SubSeq(Head(sent), 1, 2)) = Len(Head(sent))
       /\ Len(Head(sent)) = (IF tx_msg.is_fd THEN 28 + tx_msg.dlc ELSE 28 + 8)

C10_Witness ==
    /\ sent # <<>>
    /\ ~tx_msg.is_fd /\ tx_msg.dlc = 5 /\ Len(tx_msg.data) = 5
    /\ Len(Head(sent)) = 36
    /\ SubSeq(Head(sent), 1, 2) = <<0, 36>>

----------------------------------------------------------------------------
(* The datagram send wrote, field by field *)

\* the payload part of the datagram send wrote: what follows the header
SentPayload == Drop(Head(sent), SizeofMessageHeader)
\* the frame_flags and frame_id_raw fields of the datagram send wrote
SentFlags == FromBufferCopy(Head(sent)).frame_flags
SentIdRaw == FromBufferCopy(Head(sent)).frame_id_raw
\* bit n of an unsigned number
Bit(x, n) == (x \div 2^n) % 2 = 1
\* bits 31 and 30 of a 32-bit word, and its low 28 bits
Bit31(w) == w[1] >= 128
Bit30(w) == Bit(w[1], 6)
Low28(w) == Val32(<<w[1] % 16, w[2], w[3], w[4]>>)

\* C11: the frame a receive returns for a complete datagram of a known kind,
\* taken into an empty reader, has len(data) = dlc = header.frame_size.
C11_DataLengthIsDlc ==
    (/\ ReceivedOneDatagram
     /\ ret.outcome = "frame"
     /\ DatagramBytes \in CompleteDatagrams)
    => /\ Len(ret.message.data) = ret.message.dlc
       /\ ret.message.dlc = ret.header.frame_size

\* C12: for a classic frame with len(data) = d <= 8, the payload part of the
\* datagram send wrote is exactly 8 bytes: the d data bytes, then 8 - d zeros.
C12_ClassicPadding ==
    (/\ sent # <<>>
     /\ ~tx_msg.is_fd
     /\ Len(tx_msg.data) <= 8)
    => /\ Len(SentPayload) = 8
       /\ Take(SentPayload, Len(tx_msg.data)) = tx_msg.data
       /\ \A i \in (Len(tx_msg.data) + 1)..8 : SentPayload[i] = 0

C12_Witness ==
    /\ sent # <<>>
    /\ ~tx_msg.is_fd
    /\ Len(tx_msg.data) = 5 /\ tx_msg.data[5] # 0
    /\ Len(SentPayload) = 8
    /\ SubSeq(SentPayload, 6, 8) = <<0, 0, 0>>

\* C13: for a frame with arbitration_id < 2^28, bit 31 of the frame_id_raw
\* send wrote is set exactly when extended_id is true, and its low 28 bits
\* are the arbitration_id.
C13_ExtendedIdBit31 ==
    (sent # <<>> /\ tx_msg.arbitration_id < 2^28)
    => /\ Bit31(SentIdRaw) <=> tx_msg.is_extended_id
       /\ Low28(SentIdRaw) = tx_msg.arbitration_id

\* C14 as stated: in the frame_flags send wrote only bits 0, 4, 5 and 6 can be
\* set; bits 1-3 and 7-15 are zero.
C14_ReservedFlagsClear ==
    sent # <<>> => \A n \in 0..15 : Bit(SentFlags, n) => n \in {0, 4, 5, 6}

\* C14 amended: in the frame_flags send wrote only bits 0, 1, 4, 5 and 6 can be
\* set, bit 1 being FLAG_EXTENDED_IDENTIFIER; bits 2-3 and 7-15 are zero.
C14_UnusedFlagsClear ==
    sent # <<>> => \A n \in 0..15 : Bit(SentFlags, n) => n \in {0, 1, 4, 5, 6}

C14_Witness ==
    /\ sent # <<>>
    /\ ~tx_msg.is_fd /\ tx_msg.is_remote_frame /\ tx_msg.is_extended_id
    /\ tx_msg.is_error_frame /\ tx_msg.bitrate_switch
    /\ SentFlags = 1 + 2 + 16 + 32 + 64

\* C15: in the frame a receive returns for a datagram of kind CAN_FD_FRAME or
\* CAN_FD_FRAME_CRC, bitrate_switch is true exactly when bit 5 of frame_flags
\* is set, and error_frame exactly when bit 6 is set.
C15_BitrateSwitchIsBit5 ==
    (/\ ret.call = "recv"
     /\ ret.outcome = "frame"
     /\ ret.header.frame_kind \in {CAN_FD_FRAME, CAN_FD_FRAME_CRC})
    => /\ ret.message.bitrate_switch <=> Bit(ret.header.frame_flags, 5)
       /\ ret.message.is_error_frame <=> Bit(ret.header.frame_flags, 6)

\* C16: in the datagram send wrote for a frame with arbitration_id < 2^29,
\* bit 0 of frame_flags is set exactly when bit 30 of frame_id_raw is set, and
\* both are set exactly when the frame is classic and remote_frame is true.
C16_RemoteRequestTwice ==
    (sent # <<>> /\ tx_msg.arbitration_id < 2^29)
    => /\ Bit(SentFlags, 0) <=> Bit30(SentIdRaw)
       /\ Bit(SentFlags, 0) <=> (~tx_msg.is_fd /\ tx_msg.is_remote_frame)

C16_Witness ==
    /\ sent # <<>>
    /\ tx_msg.arbitration_id = 2^28 - 1
    /\ ~tx_msg.is_fd /\ tx_msg.is_remote_frame
    /\ Bit(SentFlags, 0)
    /\ Bit30(SentIdRaw)

\* C17: a call read(n, timeout) on a buffer of at least n bytes receives
\* nothing from the socket, returns the first n buffered bytes and keeps the
\* rest in order; on a buffer of fewer than n bytes it makes exactly one socket
\* receive, whatever that receive delivers.  (In SpecReader the steps that
\* leave n_delivered alone are the read calls.)
C17_ReplenishOnce ==
    [][ (n_delivered' = n_delivered /\ ret'.call = "read") =>
          LET r == ret'.reads[1]
          IN  IF Len(buffer) >= r.size
              THEN /\ r.recvs = 0
                   /\ recv_queue' = recv_queue
                   /\ r.outcome = "ok"
                   /\ r.data = SubSeq(buffer, 1, r.size)
                   /\ buffer' = SubSeq(buffer, r.size + 1, Len(buffer))
              ELSE /\ r.recvs = 1
                   /\ recv_queue' = (IF recv_queue = <<>> THEN <<>> ELSE Tail(recv_queue))
                   /\ (recv_queue = <<>>) <=> (r.outcome # "ok") ]_vars

C17_Witness ==
    /\ ret.call = "read"
    /\ ret.reads[1].size = 1 /\ ret.buffered = 2
    /\ ret.reads[1].recvs = 0
    /\ ret.waiting = 1 /\ Len(recv_queue) = 1
    /\ Len(ret.reads[1].data) = 1 /\ Len(buffer) = 1

\* C20: a receive that returns "no frame" because a read timed out leaves the
\* reader buffer as it was before the call.  (In Spec the steps that leave
\* n_sent, n_delivered and is_shutdown alone are the receive calls.)
C20_TimeoutKeepsBuffer ==
    [][ (/\ n_sent' = n_sent /\ n_delivered' = n_delivered
         /\ is_shutdown' = is_shutdown
         /\ ret'.call = "recv"
         /\ ret'.outcome = "no_frame"
         /\ \E i \in DOMAIN ret'.reads : ret'.reads[i].outcome = "TimeoutError")
        => buffer' = buffer ]_vars

C20_Witness ==
    /\ ret.call = "recv"
    /\ ret.outcome = "no_frame"
    /\ TimedOut
    /\ ret.buffered = 4
    /\ buffer = CrcBytes

\* C18 as stated: when every datagram delivered is a CAN_FRAME datagram of
\* 32 bytes (frame_size <= 8) or a CAN_FD_FRAME datagram of 24 + frame_size
\* bytes, the k-th frame returned by the receive calls is the frame of the
\* k-th datagram, and the reader buffer is empty at the end of every receive.
C18_StreamAligned24 ==
    (\A k \in DOMAIN log.delivered : log.delivered[k] \in ShortStream)
    => /\ ret.call = "recv" => buffer = <<>>
       /\ Len(log.frames) <= Len(log.delivered)
       /\ \A k \in DOMAIN log.frames : log.frames[k] = FrameOf(log.delivered[k])

\* C18 amended: when every datagram delivered is a CAN_FRAME datagram of
\* 36 bytes (frame_size <= 8) or a CAN_FD_FRAME datagram of 28 + frame_size
\* bytes, the k-th frame returned by the receive calls is the frame of the
\* k-th datagram, and the reader buffer is empty at the end of every receive.
C18_StreamAligned ==
    (\A k \in DOMAIN log.delivered : log.delivered[k] \in CompleteStream)
    => /\ ret.call = "recv" => buffer = <<>>
       /\ Len(log.frames) <= Len(log.delivered)
       /\ \A k \in DOMAIN log.frames : log.frames[k] = FrameOf(log.delivered[k])

C18_Witness ==
    /\ Len(log.delivered) = 3
    /\ \A k \in 1..3 : log.delivered[k] \in CompleteStream
    /\ Len(log.frames) = 3
    /\ log.frames[1].is_fd /\ ~log.frames[2].is_fd
    /\ log.frames[2].data # log.frames[3].data
    /\ ret.call = "recv" /\ ret.outcome = "frame"
    /\ buffer = <<>>

\* C19: after any sequence of read calls, the bytes the calls returned, in
\* order, followed by the reader buffer are the bytes the socket receives
\* returned so far, in order.
C19_BytesConserved ==
    log.returned \o buffer = log.received

C19_Witness ==
    /\ ret.call = "read"
    /\ Len(log.returned) = 4
    /\ Len(buffer) = 1
    /\ Len(log.received) = 5
    /\ log.returned \o buffer = ReaderChunk(0, 3) \o ReaderChunk(1, 2)

====
